---- MODULE Spec2Model ----
(***************************************************************************)
(* DoctorList (src/components/doctor-connect/DoctorList.tsx): a searchable *)
(* list of doctors with a two-state call dialog.                           *)
(*                                                                         *)
(* Strings are sequences of one-character strings, so that toLowerCase,    *)
(* includes, template literals and the user-agent test are computed and    *)
(* not assumed.  A value of type Doctor | null is a sequence of length at  *)
(* most one: <<>> is null, <<d>> is the doctor d.  The calls the component *)
(* makes on its collaborators (toast, window.open, window.location.href,   *)
(* onDoctorSelect) are recorded, in order, in the log `effects'.           *)
(* Of the Doctor record only the fields the handlers read are kept (id,    *)
(* name, specialty, availability, phone); image, rating and experience are *)
(* used by the layout only.                                                *)
(***************************************************************************)
EXTENDS Integers, Sequences, FiniteSets, TLC

VARIABLES doctors, searchTerm, callingDoctor, showCallDialog, effects

vars == <<doctors, searchTerm, callingDoctor, showCallDialog, effects>>

-----------------------------------------------------------------------------
(* Bounds *)

MaxDoctors == 2

MaxTermLen == 2

MaxEffects == 2

-----------------------------------------------------------------------------
(* Strings *)

UpperCaseLetters ==
  <<"A","B","C","D","E","F","G","H","I","J","K","L","M",
    "N","O","P","Q","R","S","T","U","V","W","X","Y","Z">>

LowerCaseLetters ==
  <<"a","b","c","d","e","f","g","h","i","j","k","l","m",
    "n","o","p","q","r","s","t","u","v","w","x","y","z">>

\* the lower-case letter of every upper-case letter
LowerCaseOf ==
  [c \in {UpperCaseLetters[i] : i \in DOMAIN UpperCaseLetters} |->
     LowerCaseLetters[CHOOSE i \in DOMAIN UpperCaseLetters : UpperCaseLetters[i] = c]]

ToLowerChar(c) == IF c \in DOMAIN LowerCaseOf THEN LowerCaseOf[c] ELSE c

toLowerCase(s) == [i \in 1..Len(s) |-> ToLowerChar(s[i])]

\* whether sub occurs in str at (1-based) position k
MatchesAt(str, sub, k) ==
  \A j \in 1..Len(sub) : str[k + j - 1] = sub[j]

RECURSIVE includesFrom(_, _, _)
includesFrom(str, sub, k) ==
  IF k + Len(sub) - 1 > Len(str) THEN FALSE
  ELSE IF MatchesAt(str, sub, k) THEN TRUE
  ELSE includesFrom(str, sub, k + 1)

\* String.prototype.includes: left-to-right search; the empty string occurs
\* in every string
includes(str, sub) == includesFrom(str, sub, 1)

-----------------------------------------------------------------------------
(* Doctors *)

Availability == {"Available", "Busy", "Away"}

AvailabilityText(a) ==
  CASE a = "Available" -> <<"A","v","a","i","l","a","b","l","e">>
    [] a = "Busy"      -> <<"B","u","s","y">>
    [] a = "Away"      -> <<"A","w","a","y">>

Doctor(id, name, specialty, availability, phone) ==
  [id |-> id, name |-> name, specialty |-> specialty,
   availability |-> availability, phone |-> phone]

\* the doctors a caller may pass: two available ones, a busy one and one away;
\* one phone holds characters other than digits
KnownDoctors ==
  << Doctor("1", <<"A","n","n">>, <<"E","N","T">>, "Available", <<"1","5","5">>),
     Doctor("2", <<"B","o">>, <<"e","y","e">>, "Available", <<"+","4"," ","2">>),
     Doctor("3", <<"C","y">>, <<"E","y","e">>, "Busy", <<"7">>),
     Doctor("4", <<"D","e","n">>, <<"G","P">>, "Away", <<"9","0">>) >>

DoctorPool == {KnownDoctors[k] : k \in DOMAIN KnownDoctors}

RECURSIVE SeqsUpTo(_, _)
SeqsUpTo(S, n) ==
  IF n = 0 THEN {<<>>}
  ELSE LET shorter == SeqsUpTo(S, n - 1)
       IN shorter \cup {Append(s, x) : s \in shorter, x \in S}

\* every list of up to MaxDoctors doctors, repetitions included
DoctorLists == SeqsUpTo(DoctorPool, MaxDoctors)

RECURSIVE pickFrom(_, _)
pickFrom(S, k) ==
  IF k > Len(KnownDoctors) THEN <<>>
  ELSE (IF k \in S THEN <<KnownDoctors[k]>> ELSE <<>>) \o pickFrom(S, k + 1)

\* the lists of up to MaxDoctors doctors with unique ids, in the order of
\* their ids
DoctorDirectories ==
  {pickFrom(S, 1) : S \in {T \in SUBSET DOMAIN KnownDoctors : Cardinality(T) <= MaxDoctors}}

Null == <<>>

-----------------------------------------------------------------------------
(* State after the first render *)

Init ==
  /\ doctors \in DoctorDirectories
  /\ searchTerm = <<>>
  /\ callingDoctor = Null
  /\ showCallDialog = FALSE
  /\ effects = <<>>

-----------------------------------------------------------------------------
(* Filtering *)

\* the search string is compared as typed
DoctorMatchesTermAsTyped(doctor, term) ==
  \/ includes(toLowerCase(doctor.name), term)
  \/ includes(toLowerCase(doctor.specialty), term)

DoctorMatches(doctor, term) ==
  \/ includes(toLowerCase(doctor.name), toLowerCase(term))
  \/ includes(toLowerCase(doctor.specialty), toLowerCase(term))

\* Array.prototype.filter: visits the elements in index order and keeps the
\* ones the callback accepts
RECURSIVE filterFrom(_, _, _)
filterFrom(list, term, k) ==
  IF k > Len(list) THEN <<>>
  ELSE (IF DoctorMatches(list[k], term) THEN <<list[k]>> ELSE <<>>)
         \o filterFrom(list, term, k + 1)

filteredDoctors == filterFrom(doctors, searchTerm, 1)

SearchAlphabet == {"n", "N", "e", "y"}

SearchTerms == SeqsUpTo(SearchAlphabet, MaxTermLen)

TypedTerms == {<<>>, <<"N">>, <<"E","y">>}

\* input onChange
setSearchTerm(value) ==
  /\ searchTerm' = value
  /\ UNCHANGED <<doctors, callingDoctor, showCallDialog, effects>>

-----------------------------------------------------------------------------
(* Collaborators: every call is appended to the log *)

toast(title, description, variant) ==
  [kind |-> "toast", title |-> title, description |-> description,
   variant |-> variant]

windowOpen(url, target) == [kind |-> "window.open", url |-> url, target |-> target]

locationHref(url) == [kind |-> "location.href", url |-> url]

onDoctorSelect(doctor) == [kind |-> "onDoctorSelect", doctor |-> doctor]

\* the handler's calls `out' are made in order; the log is kept to MaxEffects
Emit(out) ==
  /\ Len(effects) + Len(out) <= MaxEffects
  /\ effects' = effects \o out

-----------------------------------------------------------------------------
(* Row click *)

\* Card onClick
CardClick(i) ==
  /\ i \in DOMAIN filteredDoctors
  /\ Emit(<<onDoctorSelect(filteredDoctors[i])>>)
  /\ UNCHANGED <<doctors, searchTerm, callingDoctor, showCallDialog>>

-----------------------------------------------------------------------------
(* Call button *)

IsCurrently ==
  <<" ","i","s"," ","c","u","r","r","e","n","t","l","y"," ">>

TryAgainLater ==
  <<"."," ","P","l","e","a","s","e"," ","t","r","y"," ","a",
    "g","a","i","n"," ","l","a","t","e","r",".">>

\* the status is inserted as stored
UnavailableDescriptionStatusAsStored(doctor) ==
  doctor.name \o IsCurrently
    \o AvailabilityText(doctor.availability) \o TryAgainLater

UnavailableDescription(doctor) ==
  doctor.name \o IsCurrently
    \o toLowerCase(AvailabilityText(doctor.availability)) \o TryAgainLater

\* no availability gate
IsAvailableAlways(doctor) == TRUE

IsAvailable(doctor) == doctor.availability = "Available"

\* the click is left to bubble
noStopPropagation == FALSE

\* e.stopPropagation(): the click does not reach the Card's onClick
stopPropagation == TRUE

\* a target that is already set is kept
handleCallDoctorKeepsTarget(doctor) ==
  LET bubbled == IF stopPropagation THEN <<>> ELSE <<onDoctorSelect(doctor)>>
  IN IF ~IsAvailable(doctor)
     THEN /\ Emit(<<toast("Doctor Unavailable", UnavailableDescription(doctor),
                          "destructive")>> \o bubbled)
          /\ UNCHANGED <<doctors, searchTerm, callingDoctor, showCallDialog>>
     ELSE /\ callingDoctor' = IF callingDoctor = Null THEN <<doctor>> ELSE callingDoctor
          /\ showCallDialog' = TRUE
          /\ Emit(bubbled)
          /\ UNCHANGED <<doctors, searchTerm>>

handleCallDoctor(doctor) ==
  LET bubbled == IF stopPropagation THEN <<>> ELSE <<onDoctorSelect(doctor)>>
  IN IF ~IsAvailable(doctor)
     THEN /\ Emit(<<toast("Doctor Unavailable", UnavailableDescription(doctor),
                          "destructive")>> \o bubbled)
          /\ UNCHANGED <<doctors, searchTerm, callingDoctor, showCallDialog>>
     ELSE /\ callingDoctor' = <<doctor>>
          /\ showCallDialog' = TRUE
          /\ Emit(bubbled)
          /\ UNCHANGED <<doctors, searchTerm>>

\* Button onClick of the row's call control
CallButtonClick(i) ==
  /\ i \in DOMAIN filteredDoctors
  /\ handleCallDoctor(filteredDoctors[i])

-----------------------------------------------------------------------------
(* Dialog actions *)

WaMePrefix ==
  <<"h","t","t","p","s",":","/","/","w","a",".","m","e","/">>

TelPrefix == <<"t","e","l",":">>

Digits == {"0","1","2","3","4","5","6","7","8","9"}

IsDigit(c) == c \in Digits

\* the phone is reduced to its digits
whatsappLinkDigitsOnly(doctor) == WaMePrefix \o SelectSeq(doctor.phone, IsDigit)

whatsappLink(doctor) == WaMePrefix \o doctor.phone

telLink(doctor) == TelPrefix \o doctor.phone

handleWhatsAppCall ==
  IF callingDoctor # Null
  THEN /\ Emit(<<windowOpen(whatsappLink(callingDoctor[1]), "_blank")>>)
       /\ showCallDialog' = FALSE
       /\ UNCHANGED <<doctors, searchTerm, callingDoctor>>
  ELSE UNCHANGED vars

MobilePatterns ==
  { <<"i","P","h","o","n","e">>,
    <<"i","P","a","d">>,
    <<"i","P","o","d">>,
    <<"A","n","d","r","o","i","d">> }

\* the test without the i flag
isMobileCaseSensitive(userAgent) ==
  \E p \in MobilePatterns : includes(userAgent, p)

\* /iPhone|iPad|iPod|Android/i.test(userAgent)
isMobile(userAgent) ==
  \E p \in MobilePatterns : includes(toLowerCase(userAgent), toLowerCase(p))

\* values of navigator.userAgent
UserAgents ==
  { <<"X","1","1",";"," ","L","i","n","u","x">>,
    <<"W","i","n","6","4">>,
    <<"L","i","n","u","x",";"," ","A","n","d","r","o","i","d"," ","1","4">>,
    <<"C","P","U"," ","i","P","h","o","n","e"," ","O","S">>,
    <<"I","P","A","D">> }

DesktopDescription ==
  <<"D","i","r","e","c","t"," ","c","a","l","l","i","n","g",
    " ","i","s"," ","o","n","l","y"," ","a","v","a","i","l",
    "a","b","l","e"," ","o","n"," ","m","o","b","i","l","e",
    " ","d","e","v","i","c","e","s",".">>

handleDirectCall(userAgent) ==
  IF callingDoctor # Null
  THEN /\ IF isMobile(userAgent)
          THEN Emit(<<locationHref(telLink(callingDoctor[1]))>>)
          ELSE Emit(<<toast("Desktop Detected", DesktopDescription, "default")>>)
       /\ showCallDialog' = FALSE
       /\ UNCHANGED <<doctors, searchTerm, callingDoctor>>
  ELSE UNCHANGED vars

setShowCallDialog(value) ==
  /\ showCallDialog' = value
  /\ UNCHANGED <<doctors, searchTerm, callingDoctor, effects>>

\* the Cancel button wired to the messaging handler
CancelClickAsMessaging == handleWhatsAppCall

\* Cancel button onClick
CancelClick == setShowCallDialog(FALSE)

\* Dialog onOpenChange.  The dialog has no trigger element, so the dialog
\* component reports a change only when the user dismisses the open dialog.
onOpenChange(open) == setShowCallDialog(open)

DialogDismiss ==
  /\ showCallDialog
  /\ onOpenChange(FALSE)

-----------------------------------------------------------------------------
(* Specifications *)

\* The handlers are closures over the state and test nothing but what their
\* code tests: the footer handlers can run in every state, also after
\* showCallDialog was set to false.
Next ==
  \/ \E value \in TypedTerms : setSearchTerm(value)
  \/ \E i \in 1..MaxDoctors : CardClick(i)
  \/ \E i \in 1..MaxDoctors : CallButtonClick(i)
  \/ handleWhatsAppCall
  \/ \E userAgent \in UserAgents : handleDirectCall(userAgent)
  \/ CancelClick
  \/ DialogDismiss

Spec == Init /\ [][Next]_vars

InitFilter ==
  /\ doctors \in DoctorLists
  /\ searchTerm = <<>>
  /\ callingDoctor = Null
  /\ showCallDialog = FALSE
  /\ effects = <<>>

\* the search box alone, over every search string of the alphabet
NextFilter == \E value \in SearchTerms : setSearchTerm(value)

SpecFilter == InitFilter /\ [][NextFilter]_vars

-----------------------------------------------------------------------------
(* Vocabulary of the properties *)

\* sub is a contiguous part of str
Contains(str, sub) ==
  \E a \in 1..(Len(str) + 1) : \E b \in (a - 1)..Len(str) : SubSeq(str, a, b) = sub

LowerCasedStatus(a) ==
  CASE a = "Available" -> <<"a","v","a","i","l","a","b","l","e">>
    [] a = "Busy"      -> <<"b","u","s","y">>
    [] a = "Away"      -> <<"a","w","a","y">>

\* the environment is a mobile one
MobileEnvironment(userAgent) ==
  \E p \in MobilePatterns : Contains(toLowerCase(userAgent), toLowerCase(p))

\* the log grew by exactly one call
OneMoreEffect == Len(effects') = Len(effects) + 1 /\ SubSeq(effects', 1, Len(effects)) = effects

Calls(log, kind) == {k \in DOMAIN log : log[k].kind = kind}

\* the dialog is Open on its target; Closed is the dialog not being visible
\* (that a dialog that is not visible holds no target is C1)
Open == showCallDialog /\ callingDoctor # Null

MessagingRequest == handleWhatsAppCall

DirectCallRequest == \E userAgent \in UserAgents : handleDirectCall(userAgent)

-----------------------------------------------------------------------------
(* C1 *)

\* C1: in every reachable state, a dialog that is not visible has no target
\* doctor.
C1_HiddenDialogHasNoTarget == ~showCallDialog => callingDoctor = Null

-----------------------------------------------------------------------------
(* C2 *)

\* C2: the dialog becomes visible only by a click on the call control of an
\* Available doctor, and whenever it is visible it has a target whose
\* availability is Available.
C2_VisibleOnlyForAvailable ==
  /\ [](showCallDialog =>
          callingDoctor # Null /\ callingDoctor[1].availability = "Available")
  /\ [][(~showCallDialog /\ showCallDialog') =>
          \E i \in DOMAIN filteredDoctors :
             /\ filteredDoctors[i].availability = "Available"
             /\ CallButtonClick(i)]_vars

\* the dialog is visible although an attempt on an unavailable doctor was made
C2_Witness ==
  /\ Open
  /\ \E k \in Calls(effects, "toast") : effects[k].variant = "destructive"

-----------------------------------------------------------------------------
(* C3 *)

\* C3: a contact attempt on an Available doctor, from any dialog state, makes
\* the dialog visible with exactly that doctor as target and makes no call to
\* toast, window.open, location.href or onDoctorSelect.
C3_AttemptOnAvailableOpens ==
  [][\A i \in DOMAIN filteredDoctors :
        (filteredDoctors[i].availability = "Available" /\ CallButtonClick(i)) =>
           /\ showCallDialog'
           /\ callingDoctor' = <<filteredDoctors[i]>>
           /\ effects' = effects]_vars

\* the dialog is open on one doctor after an earlier episode messaged another
C3_Witness ==
  /\ Open
  /\ \E k \in Calls(effects, "window.open") :
        effects[k].url # WaMePrefix \o callingDoctor[1].phone

-----------------------------------------------------------------------------
(* C4 *)

\* C4: a contact attempt on a Busy or Away doctor makes exactly one call, a
\* destructive toast whose description contains the doctor's name and the
\* lower-cased status, and leaves target, visibility and search text as they
\* were.
C4_AttemptOnUnavailableNotifies ==
  [][\A i \in DOMAIN filteredDoctors :
        (filteredDoctors[i].availability \in {"Busy", "Away"} /\ CallButtonClick(i)) =>
           /\ OneMoreEffect
           /\ LET n == effects'[Len(effects')]
              IN /\ n.kind = "toast"
                 /\ n.variant = "destructive"
                 /\ Contains(n.description, filteredDoctors[i].name)
                 /\ Contains(n.description,
                             LowerCasedStatus(filteredDoctors[i].availability))
           /\ UNCHANGED <<callingDoctor, showCallDialog, searchTerm>>]_vars

\* an unavailable doctor was tried and the dialog never opened
C4_Witness ==
  /\ ~showCallDialog
  /\ callingDoctor = Null
  /\ \E k \in Calls(effects, "toast") : effects[k].variant = "destructive"

-----------------------------------------------------------------------------
(* C5 *)

-----------------------------------------------------------------------------
(* C6 *)

-----------------------------------------------------------------------------
(* C7 *)

-----------------------------------------------------------------------------
(* C8 *)

\* the doctor is to be retained under the search string s
Retained(c, s) ==
  \/ Contains(toLowerCase(c.name), toLowerCase(s))
  \/ Contains(toLowerCase(c.specialty), toLowerCase(s))

\* C8: the filtered list is the subsequence of the doctors, in input order and
\* with multiplicity, of the doctors whose lower-cased name or lower-cased
\* specialty contains the lower-cased search string; for the empty search
\* string it is the whole list.
C8_FilterIsSubsequence ==
  LET kept == {j \in DOMAIN doctors : Retained(doctors[j], searchTerm)}
      nth(i) == CHOOSE j \in kept : Cardinality({m \in kept : m <= j}) = i
  IN /\ Len(filteredDoctors) = Cardinality(kept)
     /\ \A i \in DOMAIN filteredDoctors : filteredDoctors[i] = doctors[nth(i)]
     /\ (searchTerm = <<>> => filteredDoctors = doctors)

\* a search string with an upper-case letter keeps some doctors and drops others
C8_Witness ==
  /\ toLowerCase(searchTerm) # searchTerm
  /\ Len(filteredDoctors) > 0
  /\ Len(filteredDoctors) < Len(doctors)

-----------------------------------------------------------------------------
(* C9 *)

\* C9: a row click calls onDoctorSelect exactly once with that row's doctor
\* and leaves target and visibility as they were; a click on a row's call
\* control never calls onDoctorSelect, whatever the availability.
C9_SelectionIndependentOfDialog ==
  [][/\ \A i \in DOMAIN filteredDoctors :
          CardClick(i) =>
            /\ effects' = Append(effects,
                  [kind |-> "onDoctorSelect", doctor |-> filteredDoctors[i]])
            /\ UNCHANGED <<callingDoctor, showCallDialog>>
     /\ \A i \in DOMAIN filteredDoctors :
          CallButtonClick(i) =>
            Cardinality(Calls(effects', "onDoctorSelect"))
              = Cardinality(Calls(effects, "onDoctorSelect"))]_vars

\* a row was clicked, an unavailable doctor's call control was clicked and an
\* available doctor's call control was clicked
C9_Witness ==
  /\ Open
  /\ Len(effects) = 2
  /\ Calls(effects, "onDoctorSelect") # {}
  /\ \E k \in Calls(effects, "toast") : effects[k].variant = "destructive"

-----------------------------------------------------------------------------
(* C10 *)

\* C10: a messaging or direct-call request made while the dialog is not
\* visible navigates nowhere, notifies nobody and changes no state.
C10_RequestWhileClosedDoesNothing ==
  [][(~showCallDialog /\ (MessagingRequest \/ DirectCallRequest)) =>
        UNCHANGED vars]_vars

====
